---------------------------- MODULE Spec2Model ----------------------------
(***************************************************************************)
(* Model of the memory builder of the collaboration platform:              *)
(*   - OutputGenerator.#generateSortedOutput, the inheritance sorter       *)
(*   - Reflection (list / get / #fetchEntries), the remote diary reader    *)
(*   - OutputGenerator.#injectData, the SKILL.md payload injection         *)
(*   - MemoryBuilder.build, OutputGenerator.generate and .output, and the  *)
(*     two entry points that run them                                      *)
(* JavaScript strings that the code takes apart (paths, documents) are     *)
(* sequences of one-character strings; unit names, which the code only     *)
(* compares, are strings.                                                  *)
(***************************************************************************)
EXTENDS Integers, Sequences, FiniteSets, TLC

VARIABLES
    data,       \* sorter: the mapping handed to #generateSortedOutput
    sorted,     \* sorter: [done, keys]: the keys of the returned mapping, in order
    sortCalls,  \* sorter: number of #generateSortedOutput calls made on data
    tree,       \* reflection: the files of the remote repository
    call,       \* reflection: the operation called and its arguments
    stack,      \* reflection: the pending async calls, innermost last
    inflight,   \* reflection: the request awaited (NoRequest when none)
    status,     \* reflection: "idle", "running", "returned" or "failed"
    result,     \* reflection: the entries of the returned value
    errorCode,  \* reflection: the code of the error thrown to the caller
    trace,      \* reflection: the listing get received, what it fetched
    log,        \* reflection: the requests answered so far, with their status
    doc,        \* host document: the text of SKILL.md
    payload,    \* host document: JSON.stringify(data) of the run's artifact
    passes,     \* host document: the passes made, each with the text it left
    run,        \* build: the invocation (entry point, environment, arguments)
    todo,       \* build: the steps still to be executed, next one first
    frame,      \* build: locals of the running calls (paths, returned values)
    disk,       \* build: package files, JSON files, output file, open handles
    effects,    \* build: the side effects so far, in order
    outcome     \* build: how the invocation ended (return, error, exit status)

sorterVars == <<data, sorted, sortCalls>>
reflectionVars == <<tree, call, stack, inflight, status, result, errorCode, trace, log>>
documentVars == <<doc, payload, passes>>
buildVars == <<run, todo, frame, disk, effects, outcome>>
vars == <<data, sorted, sortCalls,
          tree, call, stack, inflight, status, result, errorCode, trace, log,
          doc, payload, passes,
          run, todo, frame, disk, effects, outcome>>

\* ------------------------------------------------------------------------
\* Generic helpers
\* ------------------------------------------------------------------------

Range(s) == {s[i] : i \in DOMAIN s}

\* Array.prototype.reverse
Reverse(s) == [i \in 1..Len(s) |-> s[Len(s) + 1 - i]]

\* Position of the first occurrence of x in s, 0 when absent (indexOf + 1)
IndexOf(s, x) ==
    IF \E i \in DOMAIN s : s[i] = x
    THEN CHOOSE i \in DOMAIN s : s[i] = x /\ \A j \in 1..(i - 1) : s[j] # x
    ELSE 0

\* All sequences over S of length at most n
SeqsUpTo(S, n) == UNION {[1..k -> S] : k \in 0..n}

NoRepeat(s) == \A i, j \in DOMAIN s : i # j => s[i] # s[j]

\* All orderings of the finite set S
Orderings(S) == {s \in [1..Cardinality(S) -> S] : NoRepeat(s)}

\* ------------------------------------------------------------------------
\* InheritanceSorter: OutputGenerator.#generateSortedOutput
\* ------------------------------------------------------------------------

\* Longest inherits list enumerated for a unit
MaxInherits == 2

\* Unit names are profile and instruction identifiers (never canonical
\* array indices), so Object.keys and Object.fromEntries keep insertion
\* order and the returned mapping is represented by its key sequence.
GeneralUnits == {"A", "B", "C"}
PairUnits == {"A", "B"}
DiamondUnits == {"A", "B", "C", "D"}
\* "X" is a parent name that is never a key of the input
UnknownParent == "X"

\* data[k]?.inherits: absent (undefined), not an array, or an array of names
InheritsAbsent == [kind |-> "absent", list |-> <<>>]
InheritsNotList == [kind |-> "notlist", list |-> <<>>]
InheritsList(l) == [kind |-> "list", list |-> l]

\* Lists of distinct parents drawn from P up to MaxInherits, and a parent
\* listed twice
InheritsLists(P) ==
    {l \in SeqsUpTo(P, MaxInherits) : NoRepeat(l)} \cup {<<p, p>> : p \in P}

InheritsValues(P) ==
    {InheritsAbsent, InheritsNotList} \cup {InheritsList(l) : l \in InheritsLists(P)}

\* The diamond D inherits {B, C}, B inherits A, C inherits A
DiamondGraph(dl) ==
    [k \in DiamondUnits |->
        CASE k = "D" -> InheritsList(dl)
          [] k = "B" -> InheritsList(<<"A">>)
          [] k = "C" -> InheritsList(<<"A">>)
          [] OTHER -> InheritsAbsent]

\* An input mapping: keys is Object.keys(data), units[k] is data[k]?.inherits.
\* Three units naming each other in every way and in every key order; two
\* units that also name a parent missing from the input; the diamond in
\* every key order.
SorterInputs ==
    {[keys |-> ks, units |-> u] :
        ks \in Orderings(GeneralUnits),
        u \in [GeneralUnits -> InheritsValues(GeneralUnits)]}
    \cup
    {[keys |-> ks, units |-> u] :
        ks \in Orderings(PairUnits),
        u \in [PairUnits -> InheritsValues(PairUnits \cup {UnknownParent})]}
    \cup
    {[keys |-> ks, units |-> DiamondGraph(dl)] :
        ks \in Orderings(DiamondUnits), dl \in {<<"B", "C">>, <<"C", "B">>}}

RECURSIVE visit(_, _, _)
RECURSIVE forEachVisit(_, _, _)

\* A visit that appends a unit again when it was already visited
visit_Revisit(d, k, st) ==
    LET inherits == d.units[k]
        st1 == [st EXCEPT !.visited = @ \cup {k}]
        st2 == IF inherits.kind = "list" /\ k \notin st.visited
               THEN forEachVisit(d,
                        SelectSeq(inherits.list, LAMBDA p : p \in Range(d.keys)), st1)
               ELSE st1
    IN  [st2 EXCEPT !.result = Append(@, k)]

\* A visit that appends the unit before its parents (pre-order)
visit_PreOrder(d, k, st) ==
    IF k \in st.visited THEN st
    ELSE
        LET st1 == [visited |-> st.visited \cup {k}, result |-> Append(st.result, k)]
            inherits == d.units[k]
        IN  IF inherits.kind = "list"
            THEN forEachVisit(d,
                     SelectSeq(inherits.list, LAMBDA p : p \in Range(d.keys)), st1)
            ELSE st1

\* const visit = (k) => { ... }, with st = [visited, result]
visit(d, k, st) ==
    IF k \in st.visited THEN st
    ELSE
        LET st1 == [st EXCEPT !.visited = @ \cup {k}]
            inherits == d.units[k]
            st2 == IF inherits.kind = "list"
                   THEN forEachVisit(d,
                            SelectSeq(inherits.list, LAMBDA p : p \in Range(d.keys)), st1)
                   ELSE st1
        IN  [st2 EXCEPT !.result = Append(@, k)]

\* xs.forEach(visit)
forEachVisit(d, xs, st) ==
    IF xs = <<>> THEN st
    ELSE forEachVisit(d, Tail(xs), visit(d, Head(xs), st))

\* The sorter without the final reverse()
generateSortedOutput_NoReverse(d) ==
    forEachVisit(d, d.keys, [visited |-> {}, result |-> <<>>]).result

\* #generateSortedOutput: the keys of the returned mapping, in order
generateSortedOutput(d) ==
    Reverse(forEachVisit(d, d.keys, [visited |-> {}, result |-> <<>>]).result)

NotSorted == [done |-> FALSE, keys |-> <<>>]

\* No reflection operation has been called
NoCall == [op |-> "none", arg |-> <<>>, latestArg |-> "omitted", raw |-> FALSE,
           filePaths |-> <<>>]

ReflectionIdle ==
    /\ tree = {}
    /\ call = NoCall
    /\ stack = <<>>
    /\ inflight = [kind |-> "none", path |-> <<>>]
    /\ status = "idle"
    /\ result = <<>>
    /\ errorCode = ""
    /\ trace = [listed |-> <<>>, toFetch |-> <<>>, fetchCalls |-> 0, selfCalls |-> 0]
    /\ log = <<>>

DocumentIdle ==
    /\ doc = <<>>
    /\ payload = <<>>
    /\ passes = <<>>

\* No entry point has been started
NoRun == [entry |-> "none"]
NoOutcome == [state |-> "idle", error |-> "", success |-> FALSE, exit |-> -1]

BuildIdle ==
    /\ run = NoRun
    /\ todo = <<>>
    /\ frame = [paths |-> <<>>, returned |-> <<>>, pending |-> FALSE]
    /\ disk = [zips |-> {}, json |-> {}, file |-> "absent", dir |-> FALSE, open |-> {}]
    /\ effects = <<>>
    /\ outcome = NoOutcome

InitSorter ==
    /\ data \in SorterInputs
    /\ sorted = NotSorted
    /\ sortCalls = 0
    /\ ReflectionIdle
    /\ DocumentIdle
    /\ BuildIdle

\* One call of #generateSortedOutput on data
GenerateSortedOutput ==
    /\ sortCalls < 1
    /\ sorted' = [done |-> TRUE, keys |-> generateSortedOutput(data)]
    /\ sortCalls' = sortCalls + 1
    /\ UNCHANGED <<data, reflectionVars, documentVars, buildVars>>

NextSorter == GenerateSortedOutput

SpecSorter == InitSorter /\ [][NextSorter]_vars

\* ------------------------------------------------------------------------
\* Strings: a JavaScript string is the sequence of its characters
\* ------------------------------------------------------------------------

Digits == {"0", "1", "2", "3", "4", "5", "6", "7", "8", "9"}

\* The code unit of a character (the characters the model's paths use)
CharCode(c) ==
    CASE c = "-" -> 45 [] c = "." -> 46 [] c = "/" -> 47
      [] c = "0" -> 48 [] c = "1" -> 49 [] c = "2" -> 50 [] c = "3" -> 51
      [] c = "4" -> 52 [] c = "5" -> 53 [] c = "6" -> 54 [] c = "7" -> 55
      [] c = "8" -> 56 [] c = "9" -> 57
      [] c = "a" -> 97 [] c = "c" -> 99 [] c = "d" -> 100 [] c = "e" -> 101
      [] c = "h" -> 104 [] c = "i" -> 105 [] c = "j" -> 106 [] c = "m" -> 109
      [] c = "n" -> 110 [] c = "o" -> 111 [] c = "p" -> 112 [] c = "r" -> 114
      [] c = "s" -> 115 [] c = "t" -> 116 [] c = "u" -> 117 [] c = "x" -> 120
      [] c = "y" -> 121 [] c = "z" -> 122

RECURSIVE StrLess(_, _)
\* a < b on strings (comparison by code units)
StrLess(a, b) ==
    IF b = <<>> THEN FALSE
    ELSE IF a = <<>> THEN TRUE
    ELSE IF Head(a) = Head(b) THEN StrLess(Tail(a), Tail(b))
    ELSE CharCode(Head(a)) < CharCode(Head(b))

\* String.prototype.startsWith / endsWith
StartsWith(s, pre) == Len(pre) <= Len(s) /\ SubSeq(s, 1, Len(pre)) = pre
EndsWith(s, suf) ==
    Len(suf) <= Len(s) /\ SubSeq(s, Len(s) - Len(suf) + 1, Len(s)) = suf

\* s.slice(n): s without its first n characters
SliceFrom(s, n) == SubSeq(s, n + 1, Len(s))

\* s.slice(n, -1): s without its first n characters and its last one
SliceFromDropLast(s, n) == SubSeq(s, n + 1, Len(s) - 1)

RECURSIVE LastSegment(_)
\* path.split('/').pop(): the text after the last separator
LastSegment(s) ==
    IF \E k \in DOMAIN s : s[k] = "/"
    THEN LastSegment(SliceFrom(s, CHOOSE k \in DOMAIN s : s[k] = "/"))
    ELSE s

\* The text up to the first separator (the whole text when there is none)
FirstSegment(s) ==
    IF \E k \in DOMAIN s : s[k] = "/"
    THEN SubSeq(s, 1,
             (CHOOSE k \in DOMAIN s : s[k] = "/" /\ \A j \in 1..(k - 1) : s[j] # "/") - 1)
    ELSE s

\* ------------------------------------------------------------------------
\* The remote content store behind HttpClient.request
\* ------------------------------------------------------------------------

\* settings.reflections.repository.path and .extension
BasePath == <<"d", "i", "a", "r", "y">>
Extension == <<".", "m", "d">>
Slash == <<"/">>

Y2024 == <<"2", "0", "2", "4">>
Y2023 == <<"2", "0", "2", "3">>
M01 == <<"0", "1">>
M02 == <<"0", "2">>
D05 == <<"0", "5">>
D06 == <<"0", "6">>
Notes == <<"n", "o", "t", "e", "s">>
Dated == <<"2", "0", "2", "4", "-", "0", "1", "-", "0", "1">>
XTxt == <<"x", ".", "t", "x", "t">>

\* a/b
Join(a, b) == a \o Slash \o b

\* A file of the repository: its path from the repository root, its text
File(p, c) == [path |-> p, content |-> c]

\* Largest number of files in the repository
MaxFiles == 3

\* The files a repository is drawn from: entries named by day under
\* year/month directories, undated notes, a dated entry and a file of
\* another type at the top, a file of another type in the year directory,
\* an entry named like the year directory, and an entry whose text is empty
CandidateFiles ==
    { File(Join(BasePath, Notes \o Extension), "text"),
      File(Join(BasePath, Dated \o Extension), "text"),
      File(Join(BasePath, XTxt), "text"),
      File(Join(Join(BasePath, Y2024), XTxt), "text"),
      File(Join(BasePath, Y2024 \o Extension), "text"),
      File(Join(Join(Join(BasePath, Y2024), M01), D05 \o Extension), "text"),
      File(Join(Join(Join(BasePath, Y2024), M01), Notes \o Extension), "text"),
      File(Join(Join(Join(BasePath, Y2024), M02), D05 \o Extension), "text"),
      File(Join(Join(Join(BasePath, Y2024), M02), Notes \o Extension), "text"),
      File(Join(Join(Join(BasePath, Y2024), M02), D06 \o Extension), "") }

Trees == {t \in SUBSET CandidateFiles : Cardinality(t) <= MaxFiles}

\* The entries of directory p: one per distinct next path segment of the
\* files below p, tagged dir when more segments follow
ChildrenOf(t, p) ==
    {LET rest == SliceFrom(f.path, Len(p) + 1)
     IN  [name |-> FirstSegment(rest),
          type |-> IF FirstSegment(rest) = rest THEN "file" ELSE "dir"] :
        f \in {g \in t : StartsWith(g.path, p \o Slash)}}

RECURSIVE ByName(_)
\* The entries of a set in ascending order of name
ByName(S) ==
    IF S = {} THEN <<>>
    ELSE LET m == CHOOSE x \in S : \A y \in S \ {x} : StrLess(x.name, y.name)
         IN  <<m>> \o ByName(S \ {m})

\* A pending or answered request, and the answer to one
NoRequest == [kind |-> "none", path |-> <<>>]
Request(k, p) == [kind |-> k, path |-> p]
Response(st, items, content) == [status |-> st, items |-> items, content |-> content]

\* GET /repos/{owner}/{repo}/contents/{path}: the directory listing of p,
\* in order of name, or 404
DirectoryAnswer(t, p) ==
    IF ChildrenOf(t, p) = {} THEN Response("notfound", <<>>, "")
    ELSE Response("ok", ByName(ChildrenOf(t, p)), "")

\* The same request with the raw Accept header: the text of file p, or 404
RawAnswer(t, p) ==
    IF \E f \in t : f.path = p
    THEN Response("ok", <<>>, (CHOOSE f \in t : f.path = p).content)
    ELSE Response("notfound", <<>>, "")

\* Any other failure of the request (error.status is not 404)
ErrorAnswer == Response("error", <<>>, "")

\* ------------------------------------------------------------------------
\* Reflection: list, get, #fetchEntries, #fetchDirectory, #fetchReflection
\* ------------------------------------------------------------------------
\* A call runs until its next await of this.request; the machine m is
\*   stack   the pending async calls, innermost last
\*   req     the request being awaited (NoRequest when there is none)
\*   status  "running", "returned" or "failed"
\*   result  the entries array of the value returned to the caller
\*   code    the code of the MemoryBuilderError thrown to the caller
\*   trace   what get did: the listing it got, the paths it handed to
\*           #fetchEntries, how often it called #fetchEntries and itself

\* One pending call: fn is "list", "get" or "fetchEntries"; arg is subPath
\* (list) or date (get); pc is the await the call is suspended at
Frame(fn, arg, pc, latest, raw, filePaths) ==
    [fn |-> fn, arg |-> arg, pc |-> pc, items |-> <<>>, i |-> 1, entries |-> <<>>,
     latest |-> latest, raw |-> raw, filePaths |-> filePaths]

NoTrace == [listed |-> <<>>, toFetch |-> <<>>, fetchCalls |-> 0, selfCalls |-> 0]

IdleMachine ==
    [stack |-> <<>>, req |-> NoRequest, status |-> "running", result |-> <<>>,
     code |-> "", trace |-> NoTrace]

Top(m) == m.stack[Len(m.stack)]
Pop(m) == [m EXCEPT !.stack = SubSeq(@, 1, Len(@) - 1)]
SetTop(m, f) == [m EXCEPT !.stack[Len(m.stack)] = f]
Push(m, f) == [m EXCEPT !.stack = Append(@, f)]

\* throw new MemoryBuilderError(..., code): no caller catches it, so every
\* pending call is abandoned
Throw(m, code) ==
    [m EXCEPT !.stack = <<>>, !.req = NoRequest, !.status = "failed",
              !.result = <<>>, !.code = code]

\* /^\d/.test(path.split('/').pop()), as the number the subtraction sees
isDigitFile(path) ==
    IF LastSegment(path) # <<>> /\ Head(LastSegment(path)) \in Digits THEN 1 ELSE 0

\* A comparator that puts digit-named files first
compareEntries_DigitFirst(a, b) == isDigitFile(b) - isDigitFile(a)

\* (a, b) => isDigitFile(a) - isDigitFile(b)
compareEntries(a, b) == isDigitFile(a) - isDigitFile(b)

RECURSIVE InsertEntry_Unstable(_, _)
\* An insertion that puts x before the elements that compare equal to it
InsertEntry_Unstable(s, x) ==
    IF s = <<>> THEN <<x>>
    ELSE IF compareEntries(s[Len(s)], x) >= 0
         THEN Append(InsertEntry_Unstable(SubSeq(s, 1, Len(s) - 1), x), s[Len(s)])
         ELSE Append(s, x)

RECURSIVE InsertEntry(_, _)
\* x put into the sorted s behind every element that does not compare
\* greater than it
InsertEntry(s, x) ==
    IF s = <<>> THEN <<x>>
    ELSE IF compareEntries(s[Len(s)], x) > 0
         THEN Append(InsertEntry(SubSeq(s, 1, Len(s) - 1), x), s[Len(s)])
         ELSE Append(s, x)

RECURSIVE SortFrom(_, _)
SortFrom(done, rest) ==
    IF rest = <<>> THEN done ELSE SortFrom(InsertEntry(done, Head(rest)), Tail(rest))

\* list that returns its entries unsorted
sortEntries_Unsorted(entries) == entries

\* entries.sort(comparator): Array.prototype.sort is stable
sortEntries(entries) == SortFrom(<<>>, entries)

\* #fetchDirectory: fullPath of the request
DirectoryPath(subPath) == IF subPath # <<>> THEN Join(BasePath, subPath) ELSE BasePath

\* The external markdown parser md(content)
md(content) == <<"ast", content>>

\* { path: file, reflection: raw ? content : md(content) }
Entry(file, raw, content) ==
    [path |-> file, reflection |-> IF raw THEN content ELSE md(content)]

RECURSIVE Return(_, _)
RECURSIVE ListLoop(_)
RECURSIVE FetchLoop(_)
RECURSIVE GetAfterList(_, _)

\* this.list(subPath) up to its await of #fetchDirectory(subPath)
CallList(m, subPath) ==
    [Push(m, Frame("list", subPath, "dir", FALSE, FALSE, <<>>))
        EXCEPT !.req = Request("dir", DirectoryPath(subPath))]

\* this.#fetchEntries(filePaths, raw) up to its first await
CallFetchEntries(m, filePaths, raw) ==
    FetchLoop(Push(m, Frame("fetchEntries", <<>>, "raw", FALSE, raw, filePaths)))

\* this.get(date, latest, raw) up to its await of this.list(date)
CallGet(m, date, latest, raw) ==
    CallList(Push(m, Frame("get", date, "list", latest, raw, <<>>)), date)

RECURSIVE ListLoop_EmitsDirs(_)
\* A list that does not descend: a directory gives its path with a
\* trailing separator as an entry
ListLoop_EmitsDirs(m) ==
    LET f == Top(m)
        prefix == DirectoryPath(f.arg)
    IN  IF f.i > Len(f.items)
        THEN Return(Pop(m), sortEntries(f.entries))
        ELSE LET item == f.items[f.i]
             IN  IF item.type = "dir" \/ EndsWith(item.name, Extension)
                 THEN ListLoop_EmitsDirs(SetTop(m,
                          [f EXCEPT !.entries =
                                        Append(@, IF item.type = "dir"
                                                  THEN Join(prefix, item.name) \o Slash
                                                  ELSE Join(prefix, item.name)),
                                    !.i = @ + 1]))
                 ELSE ListLoop_EmitsDirs(SetTop(m, [f EXCEPT !.i = @ + 1]))

\* list, lines 156-171: the loop over items from item i on, up to the next
\* await (a nested list) or the return of the sorted entries
ListLoop(m) ==
    LET f == Top(m)
        prefix == DirectoryPath(f.arg)
    IN  IF f.i > Len(f.items)
        THEN Return(Pop(m), sortEntries(f.entries))
        ELSE LET item == f.items[f.i]
             IN  IF item.type = "dir"
                 THEN CallList(SetTop(m, [f EXCEPT !.pc = "nested"]),
                               IF f.arg # <<>> THEN Join(f.arg, item.name) ELSE item.name)
                 ELSE IF item.type = "file" /\ EndsWith(item.name, Extension)
                 THEN ListLoop(SetTop(m,
                          [f EXCEPT !.entries = Append(@, Join(prefix, item.name)),
                                    !.i = @ + 1]))
                 ELSE ListLoop(SetTop(m, [f EXCEPT !.i = @ + 1]))

\* #fetchEntries that takes its paths from the last one backwards
FetchLoop_LastFirst(m) ==
    LET f == Top(m)
    IN  IF f.i > Len(f.filePaths)
        THEN Return(Pop(m), f.entries)
        ELSE [m EXCEPT !.req =
                 Request("raw", Join(BasePath,
                     SliceFrom(f.filePaths[Len(f.filePaths) - f.i + 1], Len(BasePath) + 1)))]

\* #fetchEntries, lines 72-79: from file i on, up to the next await of
\* #fetchReflection or the return of the entries
FetchLoop(m) ==
    LET f == Top(m)
    IN  IF f.i > Len(f.filePaths)
        THEN Return(Pop(m), f.entries)
        ELSE [m EXCEPT !.req =
                 Request("raw", Join(BasePath, SliceFrom(f.filePaths[f.i], Len(BasePath) + 1)))]

\* get that takes the first file of the listing as the latest one
GetAfterList_First(m, items) ==
    LET f == Top(m)
        files == SelectSeq(items, LAMBDA e : EndsWith(e, Extension))
        m1 == [SetTop(m, [f EXCEPT !.pc = "return"]) EXCEPT !.trace.listed = items]
    IN  IF Len(files) > 0
        THEN LET toFetch == IF f.latest THEN SubSeq(files, 1, 1) ELSE files
             IN  CallFetchEntries(
                     [m1 EXCEPT !.trace.toFetch = toFetch, !.trace.fetchCalls = @ + 1],
                     toFetch, f.raw)
        ELSE Return(Pop(m1), <<>>)

\* get, lines 121-135, with the value of this.list(date) in hand
GetAfterList(m, items) ==
    LET f == Top(m)
        files == SelectSeq(items, LAMBDA e : EndsWith(e, Extension))
        dirs == SelectSeq(items, LAMBDA e : EndsWith(e, Slash))
        m1 == [SetTop(m, [f EXCEPT !.pc = "return"]) EXCEPT !.trace.listed = items]
    IN  IF Len(files) > 0
        THEN LET toFetch == IF f.latest THEN SubSeq(files, Len(files), Len(files))
                            ELSE files
             IN  CallFetchEntries(
                     [m1 EXCEPT !.trace.toFetch = toFetch, !.trace.fetchCalls = @ + 1],
                     toFetch, f.raw)
        ELSE IF Len(dirs) > 0 /\ f.latest
        THEN CallGet([m1 EXCEPT !.trace.selfCalls = @ + 1],
                     SliceFromDropLast(dirs[Len(dirs)], Len(BasePath) + 1), TRUE, f.raw)
        ELSE IF f.arg # <<>> /\ Len(items) = 0
        THEN LET filePath == IF EndsWith(f.arg, Extension) THEN f.arg
                             ELSE f.arg \o Extension
                 toFetch == <<Join(BasePath, filePath)>>
             IN  CallFetchEntries(
                     [m1 EXCEPT !.trace.toFetch = toFetch, !.trace.fetchCalls = @ + 1],
                     toFetch, f.raw)
        ELSE Return(Pop(m1), <<>>)

\* The value val returned to the call on top of the stack, or to the caller
\* of the operation when no call is pending
Return(m, val) ==
    IF m.stack = <<>>
    THEN [m EXCEPT !.status = "returned", !.result = val, !.req = NoRequest]
    ELSE LET f == Top(m)
         IN  IF f.fn = "list"
             THEN ListLoop(SetTop(m, [f EXCEPT !.entries = @ \o val, !.i = @ + 1]))
             ELSE IF f.fn = "get" /\ f.pc = "list"
             THEN GetAfterList(m, val)
             ELSE Return(Pop(m), val)

\* #fetchDirectory that throws on 404 as on any other failure
OnDirectoryResponse_NotFoundThrows(m, resp) ==
    LET f == Top(m)
    IN  IF resp.status # "ok"
        THEN Throw(m, "ERR_API_REQUEST")
        ELSE ListLoop(SetTop(m, [f EXCEPT !.items = resp.items, !.pc = "loop"]))

\* #fetchDirectory that treats every failure as not-found
OnDirectoryResponse_Swallow(m, resp) ==
    LET f == Top(m)
    IN  IF resp.status # "ok"
        THEN Return(Pop(m), <<>>)
        ELSE ListLoop(SetTop(m, [f EXCEPT !.items = resp.items, !.pc = "loop"]))

\* list awaiting #fetchDirectory (lines 44-60, 145-155): the answer arrives
OnDirectoryResponse(m, resp) ==
    LET f == Top(m)
    IN  IF resp.status = "error"
        THEN Throw(m, "ERR_API_REQUEST")
        ELSE IF resp.status = "notfound"
        THEN IF f.arg # <<>>
             THEN [SetTop(m, [f EXCEPT !.pc = "fallback"])
                      EXCEPT !.req = Request("raw", Join(BasePath, f.arg \o Extension))]
             ELSE Return(Pop(m), <<>>)
        ELSE ListLoop(SetTop(m, [f EXCEPT !.items = resp.items, !.pc = "loop"]))

\* #fetchReflection whose 404 yields a null entry in #fetchEntries
OnRawResponse_NullEntry(m, resp) ==
    LET f == Top(m)
    IN  IF resp.status = "error"
        THEN Throw(m, "ERR_RAW_REQUEST")
        ELSE IF f.fn = "list"
        THEN Return(Pop(m), IF resp.status = "ok" /\ resp.content # ""
                            THEN <<Join(BasePath, f.arg \o Extension)>> ELSE <<>>)
        ELSE FetchLoop(SetTop(m,
                 [f EXCEPT !.entries = Append(@, Entry(f.filePaths[f.i], f.raw, resp.content)),
                           !.i = @ + 1]))

\* list (fallback, lines 148-152) or #fetchEntries (lines 74-77) awaiting
\* #fetchReflection (lines 90-109): the answer arrives; content is null on
\* 404 and "if (content)" also skips an empty text
OnRawResponse(m, resp) ==
    LET f == Top(m)
        truthy == resp.status = "ok" /\ resp.content # ""
    IN  IF resp.status = "error"
        THEN Throw(m, "ERR_RAW_REQUEST")
        ELSE IF f.fn = "list"
        THEN Return(Pop(m), IF truthy THEN <<Join(BasePath, f.arg \o Extension)>> ELSE <<>>)
        ELSE FetchLoop(SetTop(m,
                 [f EXCEPT !.entries = IF truthy
                                       THEN Append(@, Entry(f.filePaths[f.i], f.raw, resp.content))
                                       ELSE @,
                           !.i = @ + 1]))

\* Longest path list handed to #fetchEntries by a caller of its own
MaxPaths == 2

\* The path fragments list and get are called with: none, a year, a month,
\* a full date, the date of an entry without text, a year that is not in
\* the repository, and that year with the extension. No fragment is the
\* path of a file of the repository.
Fragments ==
    { <<>>, Y2024, Join(Y2024, M01), Join(Y2024, M02),
      Join(Join(Y2024, M02), D05), Join(Join(Y2024, M02), D06),
      Y2023, Y2023 \o Extension }

\* The full paths #fetchEntries is called with
FetchPaths ==
    { Join(BasePath, Notes \o Extension),
      Join(Join(Join(BasePath, Y2024), M02), D05 \o Extension),
      Join(Join(Join(BasePath, Y2024), M02), D06 \o Extension) }

\* get(date = '', latest = !date, raw = false)
LatestOf(date, latestArg) ==
    IF latestArg = "omitted" THEN date = <<>> ELSE latestArg = "true"

SorterIdle ==
    /\ data = [keys |-> <<>>, units |-> <<>>]
    /\ sorted = NotSorted
    /\ sortCalls = 0

InitReflection ==
    /\ tree \in Trees
    /\ call = NoCall
    /\ stack = <<>>
    /\ inflight = NoRequest
    /\ status = "idle"
    /\ result = <<>>
    /\ errorCode = ""
    /\ trace = NoTrace
    /\ log = <<>>
    /\ SorterIdle
    /\ DocumentIdle
    /\ BuildIdle

Machine ==
    [stack |-> stack, req |-> inflight, status |-> status, result |-> result,
     code |-> errorCode, trace |-> trace]

\* The machine n becomes the state
Install(n) ==
    /\ stack' = n.stack
    /\ inflight' = n.req
    /\ status' = n.status
    /\ result' = n.result
    /\ errorCode' = n.code
    /\ trace' = n.trace

\* A caller calls list(subPath)
StartList ==
    \E subPath \in Fragments :
        /\ call.op = "none"
        /\ call' = [NoCall EXCEPT !.op = "list", !.arg = subPath]
        /\ Install(CallList(IdleMachine, subPath))
        /\ UNCHANGED <<tree, log, sorterVars, documentVars, buildVars>>

\* A caller calls get(date, latest, raw), latest and raw given or omitted
StartGet ==
    \E date \in Fragments, latestArg \in {"omitted", "true", "false"}, raw \in BOOLEAN :
        /\ call.op = "none"
        /\ call' = [NoCall EXCEPT !.op = "get", !.arg = date,
                                  !.latestArg = latestArg, !.raw = raw]
        /\ Install(CallGet(IdleMachine, date, LatestOf(date, latestArg), raw))
        /\ UNCHANGED <<tree, log, sorterVars, documentVars, buildVars>>

\* #fetchEntries(filePaths, raw) is called with paths of the caller's choice
StartFetchEntries ==
    \E filePaths \in SeqsUpTo(FetchPaths, MaxPaths), raw \in BOOLEAN :
        /\ call.op = "none"
        /\ call' = [NoCall EXCEPT !.op = "fetchEntries", !.raw = raw,
                                  !.filePaths = filePaths]
        /\ Install(CallFetchEntries(IdleMachine, filePaths, raw))
        /\ UNCHANGED <<tree, log, sorterVars, documentVars, buildVars>>

\* The awaited request completes with resp and the suspended call resumes
Resume(resp) ==
    LET m == [Machine EXCEPT !.req = NoRequest]
    IN  /\ Install(IF inflight.kind = "dir" THEN OnDirectoryResponse(m, resp)
                   ELSE OnRawResponse(m, resp))
        /\ log' = Append(log, [kind |-> inflight.kind, path |-> inflight.path,
                               status |-> resp.status])
        /\ UNCHANGED <<tree, call, sorterVars, documentVars, buildVars>>

\* The remote store answers the awaited request: the data, or 404
AnswerRequest ==
    /\ inflight.kind # "none"
    /\ Resume(IF inflight.kind = "dir" THEN DirectoryAnswer(tree, inflight.path)
              ELSE RawAnswer(tree, inflight.path))

\* The awaited request fails with an error other than 404
FailRequest ==
    /\ inflight.kind # "none"
    /\ Resume(ErrorAnswer)

NextReflection ==
    \/ StartList
    \/ StartGet
    \/ StartFetchEntries
    \/ AnswerRequest
    \/ FailRequest

SpecReflection == InitReflection /\ [][NextReflection]_vars

\* ------------------------------------------------------------------------
\* Host document: OutputGenerator.#injectData and #clearPayloadData
\* ------------------------------------------------------------------------
\* The text of SKILL.md is a sequence of pieces: each delimiter comment is
\* one piece, every other piece is one character.

Markers == {"instructions", "memory"}

\* <!-- framework-${marker}-start --> and <!-- framework-${marker}-end -->
StartOf(marker) ==
    IF marker = "instructions" THEN "<!-- framework-instructions-start -->"
    ELSE "<!-- framework-memory-start -->"
EndOf(marker) ==
    IF marker = "instructions" THEN "<!-- framework-instructions-end -->"
    ELSE "<!-- framework-memory-end -->"

\* The grave accent character (U+0060), and the fences made of it
Backtick == "backtick"
FenceJson == <<Backtick, Backtick, Backtick, "j", "s", "o", "n">>
Fence == <<Backtick, Backtick, Backtick>>

\* Longest text between the braces of a serialized payload
MaxPayload == 2
\* Most passes (blank or inject) made over one document
MaxPasses == 2

\* JSON.stringify(data) of an object: braces around text that may hold
\* "$", "&", a digit and a delimiter comment, none of which it escapes
PayloadPieces == {"x", "$", "&", "2", EndOf("instructions")}
Payloads == {<<"{">> \o body \o <<"}">> : body \in SeqsUpTo(PayloadPieces, MaxPayload)}

\* What a delimiter pair of the document encloses before the run
InitialBlocks ==
    { <<>>, <<"\n">>,
      <<"\n">> \o FenceJson \o <<"\n", "{", "x", "}", "\n">> \o Fence \o <<"\n">> }

\* The delimiter pair of a marker around a block, or nothing
Sections(marker) ==
    {<<>>} \cup {<<StartOf(marker)>> \o b \o <<EndOf(marker)>> : b \in InitialBlocks}

HostDocuments ==
    {<<"#", "\n">> \o si \o <<"x", "\n">> \o sm \o tail :
        si \in Sections("instructions"), sm \in Sections("memory"),
        tail \in {<<>>, <<"x">>}}

\* The leftmost match of (start)[\s\S]*?(end): the first start delimiter
\* that an end delimiter follows, up to the nearest such end delimiter
FindBlock(text, marker) ==
    LET starts == {i \in DOMAIN text :
                      /\ text[i] = StartOf(marker)
                      /\ \E j \in DOMAIN text : j > i /\ text[j] = EndOf(marker)}
    IN  IF starts = {} THEN [found |-> FALSE, from |-> 0, to |-> 0]
        ELSE LET i == CHOOSE a \in starts : \A b \in starts : a <= b
                 ends == {j \in DOMAIN text : j > i /\ text[j] = EndOf(marker)}
             IN  [found |-> TRUE, from |-> i,
                  to |-> CHOOSE a \in ends : \A b \in ends : a <= b]

RECURSIVE Substitute(_, _, _, _)
\* The replacement text that String.prototype.replace makes of the template
\* t for a match at from..to of text, whose two groups are the delimiters:
\* $$ is a dollar sign, $& the match, $ with a grave accent or an apostrophe
\* the text before or after it, $1 $2 $01 $02 the groups, any other $
\* stands for itself
Substitute(t, text, from, to) ==
    IF t = <<>> THEN <<>>
    ELSE IF t[1] # "$" \/ Len(t) = 1
    THEN <<t[1]>> \o Substitute(Tail(t), text, from, to)
    ELSE LET rest2 == SubSeq(t, 3, Len(t))
             rest3 == SubSeq(t, 4, Len(t))
         IN  CASE t[2] = "$" -> <<"$">> \o Substitute(rest2, text, from, to)
               [] t[2] = "&" -> SubSeq(text, from, to) \o Substitute(rest2, text, from, to)
               [] t[2] = Backtick -> SubSeq(text, 1, from - 1) \o Substitute(rest2, text, from, to)
               [] t[2] = "'" ->
                      SubSeq(text, to + 1, Len(text)) \o Substitute(rest2, text, from, to)
               [] t[2] = "1" -> <<text[from]>> \o Substitute(rest2, text, from, to)
               [] t[2] = "2" -> <<text[to]>> \o Substitute(rest2, text, from, to)
               [] t[2] = "0" /\ Len(t) >= 3 /\ t[3] = "1" ->
                      <<text[from]>> \o Substitute(rest3, text, from, to)
               [] t[2] = "0" /\ Len(t) >= 3 /\ t[3] = "2" ->
                      <<text[to]>> \o Substitute(rest3, text, from, to)
               [] OTHER -> <<"$">> \o Substitute(SubSeq(t, 2, Len(t)), text, from, to)

\* A replace that appends the replacement behind the match
Replace_Append(text, marker, template) ==
    LET b == FindBlock(text, marker)
    IN  IF ~b.found THEN text
        ELSE SubSeq(text, 1, b.to) \o Substitute(template, text, b.from, b.to)
                 \o SubSeq(text, b.to + 1, Len(text))

\* content.replace(pattern, template) for the pattern of a marker
Replace(text, marker, template) ==
    LET b == FindBlock(text, marker)
    IN  IF ~b.found THEN text
        ELSE SubSeq(text, 1, b.from - 1) \o Substitute(template, text, b.from, b.to)
                 \o SubSeq(text, b.to + 1, Len(text))

\* The template $1 \n fence json \n JSON.stringify(data) \n fence \n $2
jsonBlock(json) ==
    <<"$", "1", "\n">> \o FenceJson \o <<"\n">> \o json
        \o <<"\n">> \o Fence \o <<"\n", "$", "2">>

\* The template $1 \n $2
emptyBlock == <<"$", "1", "\n", "$", "2">>

\* #injectData(marker, data): the text written back to SKILL.md
injectData(text, marker, json) == Replace(text, marker, jsonBlock(json))

\* #clearPayloadData(marker): the text written back to SKILL.md
clearPayloadData(text, marker) == Replace(text, marker, emptyBlock)

InitDocument ==
    /\ doc \in HostDocuments
    /\ payload \in Payloads
    /\ passes = <<>>
    /\ SorterIdle
    /\ ReflectionIdle
    /\ BuildIdle

Pass(op, marker, after) ==
    [op |-> op, marker |-> marker, before |-> doc, after |-> after]

\* #injectData(marker, data) reads SKILL.md, replaces, writes it back
InjectData ==
    \E marker \in Markers :
        /\ Len(passes) < MaxPasses
        /\ doc' = injectData(doc, marker, payload)
        /\ passes' = Append(passes, Pass("inject", marker, doc'))
        /\ UNCHANGED <<payload, sorterVars, reflectionVars, buildVars>>

\* #clearPayloadData(marker) reads SKILL.md, replaces, writes it back
ClearPayloadData ==
    \E marker \in Markers :
        /\ Len(passes) < MaxPasses
        /\ doc' = clearPayloadData(doc, marker)
        /\ passes' = Append(passes, Pass("clear", marker, doc'))
        /\ UNCHANGED <<payload, sorterVars, reflectionVars, buildVars>>

NextDocument == InjectData \/ ClearPayloadData

SpecDocument == InitDocument /\ [][NextDocument]_vars

\* ------------------------------------------------------------------------
\* Entry points, MemoryBuilder.build, OutputGenerator.generate and .output
\* ------------------------------------------------------------------------
\* An invocation is executed step by step: todo holds the steps that remain,
\* a call is replaced by the steps of its body when its turn comes, and an
\* exception drops the steps up to its handler.

\* settings.path.package.output, the names of the registered skills, the
\* names of the two JSON files
OutputPath == <<"o", "u", "t">>
SkillInit == <<"i", "n", "i", "t">>
SkillMethod == <<"m", "e", "t", "h", "o", "d">>
SkillNames == {SkillInit, SkillMethod}
InstructionsJson ==
    <<"i", "n", "s", "t", "r", "u", "c", "t", "i", "o", "n", "s", ".", "j", "s", "o", "n">>
MemoryJson == <<"m", "e", "m", "o", "r", "y", ".", "j", "s", "o", "n">>

\* The file name a marker's data is written to
JsonName(marker) == IF marker = "instructions" THEN InstructionsJson ELSE MemoryJson

\* The zip path of a skill in #createZip, the file path in #writeJsonFile
ZipPath(skillName) == OutputPath \o Slash \o skillName \o <<".", "z", "i", "p">>
JsonPath(filename) == Join(OutputPath, filename)

\* Most skills registered over all plugins
MaxSkills == 2

\* settings.plugins flattened in iteration order: for each registered skill
\* its name and whether its source directory exists
Registrations == SeqsUpTo([skill : SkillNames, dir : BOOLEAN], MaxSkills)

\* The values generate may be handed, and what typeof makes of them
InputKinds == {"object", "array", "null", "undefined", "string"}
TypeOf(kind) == IF kind \in {"object", "array", "null"} THEN "object" ELSE kind

\* SKILL.md of the methodology skill before the run
BuildDocument ==
    <<"#", "\n", StartOf("instructions"), "\n", EndOf("instructions"), "x", "\n",
      StartOf("memory"), "\n", EndOf("memory"), "\n">>

\* SKILL.md when an earlier run has injected its payloads
PreviousDocument ==
    injectData(injectData(BuildDocument, "instructions", <<"{", "x", "}">>),
               "memory", <<"{", "x", "}">>)

\* An invocation: the fields an entry point does not use keep these values
DefaultRun ==
    [entry |-> "none", inContainer |-> FALSE, container |-> FALSE, previous |-> FALSE,
     profileGiven |-> FALSE, instructions |-> "object", profiles |-> "object",
     returnOnly |-> FALSE, skipInject |-> FALSE, plugins |-> <<>>,
     timezoneOk |-> TRUE, dest |-> "stdout"]

\* node index.js [-c] [-p name], inside or outside the container
CliRuns ==
    {[DefaultRun EXCEPT !.entry = "cli", !.inContainer = ic, !.container = c,
                        !.profileGiven = pg, !.plugins = pl, !.timezoneOk = tz] :
        ic \in BOOLEAN, c \in BOOLEAN, pg \in BOOLEAN, pl \in Registrations,
        tz \in BOOLEAN}

\* The automated loader, inside or outside the container
LoaderRuns ==
    {[DefaultRun EXCEPT !.entry = "loader", !.inContainer = ic, !.plugins = pl,
                        !.timezoneOk = tz] :
        ic \in BOOLEAN, pl \in Registrations, tz \in BOOLEAN}

\* A direct call of generate(instructions, profiles, returnOnly, skipInject)
\* on a generator constructed with or without container
GenerateRuns ==
    {[DefaultRun EXCEPT !.entry = "generate", !.inContainer = ic, !.container = c,
                        !.instructions = i, !.profiles = p, !.returnOnly = ro,
                        !.skipInject = sk, !.plugins = pl] :
        ic \in BOOLEAN, c \in BOOLEAN, i \in InputKinds, p \in InputKinds,
        ro \in BOOLEAN, sk \in BOOLEAN, pl \in SeqsUpTo([skill : SkillNames, dir : {TRUE}], 1)}

\* A direct call of output(data, outputPath)
OutputRuns ==
    {[DefaultRun EXCEPT !.entry = "output", !.dest = d] : d \in {"stdout", "", "file"}}

Runs == CliRuns \cup LoaderRuns \cup GenerateRuns \cup OutputRuns

\* One step of todo: what to do, on what, for which generate call
Step(op, arg, gen) == [op |-> op, arg |-> arg, gen |-> gen]

\* A generate call: the generator's container flag, the data it is handed,
\* its flags
Gen(container, instructions, profiles, label, returnOnly, skipInject) ==
    [container |-> container, instructions |-> instructions, profiles |-> profiles,
     label |-> label, returnOnly |-> returnOnly, skipInject |-> skipInject]

NoGen == Gen(FALSE, "object", "object", "none", FALSE, FALSE)

\* The step an entry point starts with
FirstStep(r) ==
    IF r.entry \in {"cli", "loader"} THEN Step("build", "", NoGen)
    ELSE IF r.entry = "generate"
    THEN Step("generate", "",
              Gen(r.container, r.instructions, r.profiles, "direct", r.returnOnly, r.skipInject))
    ELSE Step("output", r.dest, NoGen)

\* The files before the run: package files left by an earlier run; for
\* output, the destination file and its directory
DisksFor(r) ==
    IF r.entry = "output"
    THEN [zips : {{}}, json : {{}}, file : {"absent", "old"}, dir : BOOLEAN, open : {{}}]
    ELSE [zips : SUBSET {ZipPath(n) : n \in SkillNames},
          json : {{}}, file : {"absent"}, dir : {FALSE}, open : {{}}]

\* SKILL.md as the invocation finds it; the payloads of an earlier run are
\* drawn for the invocations that blank the document
SkillDocument(r) == IF r.previous THEN PreviousDocument ELSE BuildDocument

InitBuild ==
    /\ \E r \in Runs, prev \in BOOLEAN :
           /\ prev => r.container /\ ~r.inContainer
           /\ run = [r EXCEPT !.previous = prev]
    /\ todo = <<FirstStep(run)>>
    /\ frame = [paths |-> <<>>, returned |-> <<>>, pending |-> FALSE]
    /\ disk \in DisksFor(run)
    /\ effects = <<>>
    /\ outcome = [NoOutcome EXCEPT !.state = "running"]
    /\ doc = SkillDocument(run)
    /\ payload = <<>>
    /\ passes = <<>>
    /\ SorterIdle
    /\ ReflectionIdle

Cur == Head(todo)
Rest == Tail(todo)

\* One side effect: what was done, to what, in which generate call
Effect(kind, target, by) == [kind |-> kind, target |-> target, by |-> by]

\* No exception handler is left but the try of build (index.js 123-126),
\* which prints the diagnostic and makes build return false; a direct call
\* passes the exception to its caller. fx are the effects up to the throw.
Raise(code, fx) ==
    /\ todo' = <<>>
    /\ IF run.entry \in {"cli", "loader"}
       THEN /\ effects' = Append(fx, Effect("stderr", code, "none"))
            /\ outcome' = [outcome EXCEPT !.state = "built", !.error = code,
                                          !.success = FALSE]
       ELSE /\ effects' = fx
            /\ outcome' = [outcome EXCEPT !.state = "failed", !.error = code]

\* The step is done and steps remain; when none remains build returns true
\* (index.js 122), a direct call returns to its caller
Continue(steps, fx) ==
    /\ todo' = steps
    /\ effects' = fx
    /\ outcome' = IF steps # <<>> THEN outcome
                  ELSE IF run.entry \in {"cli", "loader"}
                  THEN [outcome EXCEPT !.state = "built", !.success = TRUE]
                  ELSE [outcome EXCEPT !.state = "returned"]

\* build, lines 90-121: a call before the generation may throw; without a
\* profile name only the output is generated; a container build outside the
\* container generates twice and prints the first result; any other build
\* generates once
Build ==
    /\ todo # <<>> /\ Cur.op = "build"
    /\ LET profileName == IF run.entry = "cli" THEN run.container \/ run.profileGiven
                          ELSE ~run.inContainer
           container == (run.entry = "cli" /\ run.container) \/ run.inContainer
       IN  \E loaded \in BOOLEAN :
               IF ~loaded THEN Raise("ERR_LOAD", effects)
               ELSE IF ~profileName
               THEN Continue(<<Step("generateOutput", "none",
                                    Gen(FALSE, "object", "object", "default", FALSE, FALSE))>>,
                             effects)
               ELSE IF container /\ ~run.inContainer
               THEN Continue(<<Step("generate", "",
                                    Gen(TRUE, "object", "object", "container", TRUE, FALSE)),
                               Step("loadDefaults", "", NoGen),
                               Step("generate", "",
                                    Gen(FALSE, "object", "object", "local", TRUE, FALSE)),
                               Step("output", "stdout", NoGen)>>,
                             effects)
               ELSE Continue(<<Step("generate", "",
                                    Gen(container, "object", "object",
                                        IF container THEN "container" ELSE "local",
                                        FALSE, FALSE))>>,
                             effects)
    /\ UNCHANGED <<run, frame, disk, documentVars, sorterVars, reflectionVars>>

\* generate that forgets the null test
validate_NullAccepted(g) ==
    IF TypeOf(g.instructions) # "object" THEN "INVALID_INSTRUCTIONS"
    ELSE IF TypeOf(g.profiles) # "object" THEN "INVALID_PROFILES"
    ELSE ""

\* generate, lines 330-335: the code of the error thrown, "" when none is
validate(g) ==
    IF TypeOf(g.instructions) # "object" \/ g.instructions = "null"
    THEN "INVALID_INSTRUCTIONS"
    ELSE IF TypeOf(g.profiles) # "object" \/ g.profiles = "null"
    THEN "INVALID_PROFILES"
    ELSE ""

\* The two injections of generate, lines 355-358 and 361-364
injectSteps(g) ==
    IF g.skipInject THEN <<>>
    ELSE <<Step("inject", "instructions", g), Step("inject", "memory", g)>>

\* A container branch that packages before it blanks
generateBody_ZipFirst(g) ==
    IF g.container /\ ~run.inContainer
    THEN [i \in 1..Len(run.plugins) |-> Step("zip", i, g)]
         \o <<Step("clear", "instructions", g), Step("clear", "memory", g)>>
         \o <<Step("writeJson", "instructions", g), Step("writeJson", "memory", g)>>
         \o injectSteps(g)
         \o <<Step("generateOutput", "paths", g)>>
    ELSE injectSteps(g) \o <<Step("generateOutput", "none", g)>>

\* generate, lines 338-365: the steps of the container branch of a
\* generator constructed with container outside the container, else those
\* of the local branch
generateBody(g) ==
    IF g.container /\ ~run.inContainer
    THEN <<Step("clear", "instructions", g), Step("clear", "memory", g)>>
         \o [i \in 1..Len(run.plugins) |-> Step("zip", i, g)]
         \o <<Step("writeJson", "instructions", g), Step("writeJson", "memory", g)>>
         \o injectSteps(g)
         \o <<Step("generateOutput", "paths", g)>>
    ELSE injectSteps(g) \o <<Step("generateOutput", "none", g)>>

\* #findSkillByKey: whether a registered skill has the key (null if none)
findSkillByKey(r, skillName) == \E i \in DOMAIN r.plugins : r.plugins[i].skill = skillName

\* generate, lines 329-337: validation, then the sorted artifacts, whose
\* version is read from the methodology skill: a TypeError when no plugin
\* registers it
Generate ==
    /\ todo # <<>> /\ Cur.op = "generate"
    /\ IF validate(Cur.gen) # ""
       THEN Raise(validate(Cur.gen), effects) /\ UNCHANGED frame
       ELSE IF ~findSkillByKey(run, SkillMethod)
       THEN Raise("TypeError", effects) /\ UNCHANGED frame
       ELSE /\ Continue(generateBody(Cur.gen) \o Rest, effects)
            /\ frame' = [frame EXCEPT !.paths = <<>>]
    /\ UNCHANGED <<run, disk, documentVars, sorterVars, reflectionVars>>


\* build, lines 113-115: the default profile and the local instructions are
\* built between the two generations; a call may throw
LoadDefaults ==
    /\ todo # <<>> /\ Cur.op = "loadDefaults"
    /\ \E loaded \in BOOLEAN :
           IF loaded THEN Continue(Rest, effects) ELSE Raise("ERR_LOAD", effects)
    /\ UNCHANGED <<run, frame, disk, documentVars, sorterVars, reflectionVars>>

\* JSON.stringify of the data a generate call holds for a marker
DataJson(label, marker) ==
    <<"{", IF label = "container" THEN "c" ELSE IF label = "local" THEN "l" ELSE "d",
      IF marker = "instructions" THEN "i" ELSE "m", "}">>

\* #clearPayloadData in generate, lines 339-340: SKILL.md is read, blanked
\* and written back, or a file call throws
StepClearPayloadData ==
    /\ todo # <<>> /\ Cur.op = "clear"
    /\ \E ok \in BOOLEAN :
           IF ok
           THEN /\ doc' = clearPayloadData(doc, Cur.arg)
                /\ passes' = Append(passes, Pass("clear", Cur.arg, doc'))
                /\ Continue(Rest, Append(effects, Effect("clear", Cur.arg, Cur.gen.label)))
           ELSE /\ Raise("EACCES", effects)
                /\ UNCHANGED <<doc, passes>>
    /\ UNCHANGED <<run, frame, disk, payload, sorterVars, reflectionVars>>

\* #injectData in generate, lines 356-357 and 362-363: SKILL.md is read,
\* the block replaced and the file written back, or a file call throws
StepInjectData ==
    /\ todo # <<>> /\ Cur.op = "inject"
    /\ \E ok \in BOOLEAN :
           IF ok
           THEN /\ doc' = injectData(doc, Cur.arg, DataJson(Cur.gen.label, Cur.arg))
                /\ passes' = Append(passes, Pass("inject", Cur.arg, doc'))
                /\ Continue(Rest, Append(effects, Effect("inject", Cur.arg, Cur.gen.label)))
           ELSE /\ Raise("EACCES", effects)
                /\ UNCHANGED <<doc, passes>>
    /\ UNCHANGED <<run, frame, disk, payload, sorterVars, reflectionVars>>

\* #createZip that packages a skill whose directory is absent
CreateZip_NoSkip ==
    /\ todo # <<>> /\ Cur.op = "zip"
    /\ LET zp == ZipPath(run.plugins[Cur.arg].skill)
       IN  /\ disk' = [disk EXCEPT !.zips = @ \cup {zp}]
           /\ frame' = [frame EXCEPT !.paths = Append(@, zp)]
           /\ Continue(Rest, Append(effects, Effect("tar", zp, Cur.gen.label)))
    /\ UNCHANGED <<run, documentVars, sorterVars, reflectionVars>>

\* #createZip and lines 346-349 of generate: a skill without a directory
\* gives null and no path; an existing zip is unlinked, tar creates the zip
\* and the path is pushed; a failing command throws ZIP_CREATE_ERROR
CreateZip ==
    /\ todo # <<>> /\ Cur.op = "zip"
    /\ LET reg == run.plugins[Cur.arg]
           zp == ZipPath(reg.skill)
           unlinked == IF zp \in disk.zips
                       THEN Append(effects, Effect("unlink", zp, Cur.gen.label))
                       ELSE effects
       IN  IF ~reg.dir
           THEN Continue(Rest, effects) /\ UNCHANGED <<disk, frame>>
           ELSE \E ok \in BOOLEAN :
                    IF ok
                    THEN /\ disk' = [disk EXCEPT !.zips = @ \cup {zp}]
                         /\ frame' = [frame EXCEPT !.paths = Append(@, zp)]
                         /\ Continue(Rest, Append(unlinked, Effect("tar", zp, Cur.gen.label)))
                    ELSE /\ disk' = [disk EXCEPT !.zips = @ \ {zp}]
                         /\ Raise("ZIP_CREATE_ERROR", unlinked)
                         /\ UNCHANGED frame
    /\ UNCHANGED <<run, documentVars, sorterVars, reflectionVars>>

\* A write that takes back the files written before it when it fails
writeFileSync_Rollback(files, path, content, res) ==
    IF res = "ok" THEN {f \in files : f.path # path} \cup {[path |-> path, content |-> content]}
    ELSE {}

\* fs.writeFileSync(path, content): the files after the call. The file is
\* opened, which creates or empties it, then written; either may fail.
writeFileSync(files, path, content, res) ==
    LET others == {f \in files : f.path # path}
    IN  CASE res = "ok" -> others \cup {[path |-> path, content |-> content]}
          [] res = "openFails" -> files
          [] res = "writeFails" -> others \cup {[path |-> path, content |-> <<>>]}

\* #writeJsonFile and lines 353-354 of generate: the file is written and
\* its path pushed; the error of a failing write is not wrapped
WriteJsonFile ==
    /\ todo # <<>> /\ Cur.op = "writeJson"
    /\ LET path == JsonPath(JsonName(Cur.arg))
       IN  \E res \in {"ok", "openFails", "writeFails"} :
               /\ disk' = [disk EXCEPT !.json =
                              writeFileSync(@, path, DataJson(Cur.gen.label, Cur.arg), res)]
               /\ IF res = "ok"
                  THEN /\ frame' = [frame EXCEPT !.paths = Append(@, path)]
                       /\ Continue(Rest, Append(effects, Effect("write", path, Cur.gen.label)))
                  ELSE Raise("EACCES", effects) /\ UNCHANGED frame
    /\ UNCHANGED <<run, documentVars, sorterVars, reflectionVars>>


RECURSIVE InsertPath(_, _)
\* x put into the sorted s before the first element greater than it
InsertPath(s, x) ==
    IF s = <<>> THEN <<x>>
    ELSE IF StrLess(x, s[Len(s)])
         THEN Append(InsertPath(SubSeq(s, 1, Len(s) - 1), x), s[Len(s)])
         ELSE Append(s, x)

RECURSIVE sortPaths(_)
\* paths.sort(): the default order of Array.prototype.sort, by code units
sortPaths(paths) ==
    IF paths = <<>> THEN <<>>
    ELSE InsertPath(sortPaths(SubSeq(paths, 1, Len(paths) - 1)), paths[Len(paths)])

\* The output object: { paths, profile, timestamp } or { profile, timestamp }
Value(hasPaths, paths, label) == [hasPaths |-> hasPaths, paths |-> paths, label |-> label]

\* generateOutput, lines 376-390: a failing geolocation fetch gives {}, an
\* invalid timezone makes TimeGenerator.generate throw; the output object is
\* returned, or printed by output(output, 'stdout')
GenerateOutput ==
    /\ todo # <<>> /\ Cur.op = "generateOutput"
    /\ LET value == IF Cur.arg = "paths"
                    THEN Value(TRUE, sortPaths(frame.paths), Cur.gen.label)
                    ELSE Value(FALSE, <<>>, Cur.gen.label)
       IN  IF ~run.timezoneOk
           THEN Raise("RangeError", effects) /\ UNCHANGED frame
           ELSE IF Cur.gen.returnOnly
           THEN /\ frame' = [frame EXCEPT !.returned = Append(@, value)]
                /\ Continue(Rest, effects)
           ELSE /\ Continue(Rest, Append(effects, Effect("stdout", value, Cur.gen.label)))
                /\ UNCHANGED frame
    /\ UNCHANGED <<run, disk, documentVars, sorterVars, reflectionVars>>

\* output, lines 399-410: stdout or no path prints; else the directory is
\* created when it is absent, which may fail
Output ==
    /\ todo # <<>> /\ Cur.op = "output"
    /\ LET printed == IF frame.returned # <<>> THEN frame.returned[1]
                      ELSE Value(FALSE, <<>>, "data")
       IN  IF Cur.arg \in {"", "stdout"}
           THEN /\ Continue(Rest, Append(effects, Effect("stdout", printed, "none")))
                /\ UNCHANGED disk
           ELSE IF disk.dir
           THEN /\ todo' = <<Step("open", Cur.arg, NoGen)>> \o Rest
                /\ UNCHANGED <<disk, effects, outcome>>
           ELSE \E ok \in BOOLEAN :
                    IF ok
                    THEN /\ disk' = [disk EXCEPT !.dir = TRUE]
                         /\ todo' = <<Step("open", Cur.arg, NoGen)>> \o Rest
                         /\ effects' = Append(effects, Effect("mkdir", Cur.arg, "none"))
                         /\ UNCHANGED outcome
                    ELSE Raise("OUTPUT_WRITE_ERROR", effects) /\ UNCHANGED disk
    /\ UNCHANGED <<run, frame, documentVars, sorterVars, reflectionVars>>

\* output, line 411: openSync(path, 'w') creates or empties the file and
\* gives a descriptor, or throws
OutputOpen ==
    /\ todo # <<>> /\ Cur.op = "open"
    /\ \E ok \in BOOLEAN :
           IF ok
           THEN /\ disk' = [disk EXCEPT !.file = "empty", !.open = @ \cup {Cur.arg}]
                /\ todo' = <<Step("write", Cur.arg, NoGen)>> \o Rest
                /\ effects' = Append(effects, Effect("open", Cur.arg, "none"))
                /\ UNCHANGED outcome
           ELSE Raise("OUTPUT_WRITE_ERROR", effects) /\ UNCHANGED disk
    /\ UNCHANGED <<run, frame, documentVars, sorterVars, reflectionVars>>

\* output, lines 413-414: the data is written and synced; when either call
\* throws the exception is pending while finally runs
OutputWrite ==
    /\ todo # <<>> /\ Cur.op = "write"
    /\ \E res \in {"ok", "writeFails", "syncFails"} :
           /\ disk' = [disk EXCEPT !.file = IF res = "writeFails" THEN @ ELSE "written"]
           /\ frame' = [frame EXCEPT !.pending = res # "ok"]
           /\ effects' =
                  CASE res = "ok" -> effects \o <<Effect("write", Cur.arg, "none"),
                                                  Effect("fsync", Cur.arg, "none")>>
                    [] res = "syncFails" -> Append(effects, Effect("write", Cur.arg, "none"))
                    [] res = "writeFails" -> effects
    /\ todo' = <<Step("close", Cur.arg, NoGen)>> \o Rest
    /\ UNCHANGED <<run, outcome, documentVars, sorterVars, reflectionVars>>

\* An output without finally: the descriptor is closed only after a
\* successful write
OutputClose_OnSuccessOnly ==
    /\ todo # <<>> /\ Cur.op = "close"
    /\ frame' = [frame EXCEPT !.pending = FALSE]
    /\ IF frame.pending
       THEN Raise("OUTPUT_WRITE_ERROR", effects) /\ UNCHANGED disk
       ELSE /\ disk' = [disk EXCEPT !.open = @ \ {Cur.arg}]
            /\ Continue(Rest, Append(effects, Effect("close", Cur.arg, "none")))
    /\ UNCHANGED <<run, documentVars, sorterVars, reflectionVars>>

\* output, lines 415-420: finally closes the descriptor; a pending
\* exception, or one of closeSync, is rethrown as OUTPUT_WRITE_ERROR
OutputClose ==
    /\ todo # <<>> /\ Cur.op = "close"
    /\ disk' = [disk EXCEPT !.open = @ \ {Cur.arg}]
    /\ frame' = [frame EXCEPT !.pending = FALSE]
    /\ \E closed \in BOOLEAN :
           IF frame.pending \/ ~closed
           THEN Raise("OUTPUT_WRITE_ERROR", Append(effects, Effect("close", Cur.arg, "none")))
           ELSE Continue(Rest, Append(effects, Effect("close", Cur.arg, "none")))
    /\ UNCHANGED <<run, documentVars, sorterVars, reflectionVars>>

\* index.js lines 46-47 and the loader's last lines: process.exit(success ?
\* 0 : 1), except that the loader in the container drops the result of
\* build and the process ends with status 0
ExitStatus(r, success) ==
    IF r.entry = "loader" /\ r.inContainer THEN 0
    ELSE IF success THEN 0 ELSE 1

\* The process ends after build has returned
Exit ==
    /\ outcome.state = "built"
    /\ run.entry \in {"cli", "loader"}
    /\ outcome' = [outcome EXCEPT !.state = "exited",
                                  !.exit = ExitStatus(run, outcome.success)]
    /\ UNCHANGED <<run, todo, frame, disk, effects, documentVars, sorterVars, reflectionVars>>

NextBuild ==
    \/ Build
    \/ LoadDefaults
    \/ Generate
    \/ StepClearPayloadData
    \/ CreateZip
    \/ WriteJsonFile
    \/ StepInjectData
    \/ GenerateOutput
    \/ Output
    \/ OutputOpen
    \/ OutputWrite
    \/ OutputClose
    \/ Exit

SpecBuild == InitBuild /\ [][NextBuild]_vars

\* ------------------------------------------------------------------------
\* Properties of the inheritance sorter
\* ------------------------------------------------------------------------

Keys(d) == Range(d.keys)

\* The parents a unit lists that are present in the input
PresentParents(d, k) ==
    IF d.units[k].kind = "list" THEN Range(d.units[k].list) \cap Keys(d) ELSE {}

RECURSIVE ReachFrom(_, _, _)
\* Units reachable from the set S by following present parents, n rounds
ReachFrom(d, S, n) ==
    IF n = 0 THEN S
    ELSE ReachFrom(d, S \cup UNION {PresentParents(d, k) : k \in S}, n - 1)

\* Direct and transitive present ancestors of k
Ancestors(d, k) == ReachFrom(d, PresentParents(d, k), Cardinality(Keys(d)))

Acyclic(d) == \A k \in Keys(d) : k \notin Ancestors(d, k)

IsDiamond(d) ==
    /\ Keys(d) = DiamondUnits
    /\ PresentParents(d, "D") = {"B", "C"}
    /\ PresentParents(d, "B") = {"A"}
    /\ PresentParents(d, "C") = {"A"}
    /\ PresentParents(d, "A") = {}

Pos(k) == IndexOf(sorted.keys, k)

\* C1: for an acyclic inheritance graph every unit occurs, in the returned
\* mapping, earlier than each parent it lists that is present in the input;
\* in the diamond D -> {B, C}, B -> A, C -> A the unit A comes after both B
\* and C whatever the order of the input keys.
Thm_C1_ParentsAfterUnit ==
    (sorted.done /\ Acyclic(data)) =>
        /\ \A k \in Keys(data) : \A p \in PresentParents(data, k) :
              Pos(k) > 0 /\ Pos(k) < Pos(p)
        /\ IsDiamond(data) => (Pos("B") < Pos("A") /\ Pos("C") < Pos("A"))

\* The diamond given with A as its first key and D as its last, sorted
Wit_C1_DiamondSorted ==
    /\ sorted.done
    /\ IsDiamond(data)
    /\ data.keys = <<"A", "B", "C", "D">>
    /\ Pos("A") = 4

\* C2: for every input (self references, cycles, diamonds, inherits absent
\* or not a list, unknown parents) the sorter returns each input unit name
\* exactly once and no other name.
Thm_C2_OutputIsPermutation ==
    sorted.done =>
        /\ Len(sorted.keys) = Len(data.keys)
        /\ Range(sorted.keys) = Keys(data)
        /\ NoRepeat(sorted.keys)

\* A sorted input with a self reference, a mutual cycle and a parent that
\* is not in the input
Wit_C2_CyclicSorted ==
    /\ sorted.done
    /\ data.keys = <<"A", "B">>
    /\ data.units["A"] = InheritsList(<<"A", "B">>)
    /\ data.units["B"] = InheritsList(<<"X", "A">>)
    /\ Len(sorted.keys) = 2

\* C3 as stated: ancestors come first, the most-derived units last (every
\* present parent of a unit precedes the unit).
Cex_C3_AncestorsFirst ==
    (sorted.done /\ Acyclic(data)) =>
        \A k \in Keys(data) : \A p \in PresentParents(data, k) : Pos(p) < Pos(k)

\* C3 amended: for an acyclic graph the most-derived units come first and
\* the ancestors last: every unit precedes all of its direct and transitive
\* ancestors, the first unit of the mapping is inherited by no unit and the
\* last unit has no present parent.
Thm_C3_DescendantsFirst ==
    (sorted.done /\ Acyclic(data)) =>
        /\ \A k \in Keys(data) : \A a \in Ancestors(data, k) : Pos(k) < Pos(a)
        /\ \A k \in Keys(data) : sorted.keys[1] \notin PresentParents(data, k)
        /\ PresentParents(data, sorted.keys[Len(sorted.keys)]) = {}

\* The chain A -> B -> C given base-first comes out as A, B, C
Wit_C3_ChainSorted ==
    /\ sorted.done
    /\ data.keys = <<"C", "B", "A">>
    /\ data.units["A"] = InheritsList(<<"B">>)
    /\ data.units["B"] = InheritsList(<<"C">>)
    /\ data.units["C"] = InheritsAbsent
    /\ sorted.keys = <<"A", "B", "C">>

\* ------------------------------------------------------------------------
\* Properties of the reflection reader
\* ------------------------------------------------------------------------

PathsOf(entries) == [i \in DOMAIN entries |-> entries[i].path]

\* No digit-named entry precedes an entry that is not digit-named
DigitNamedLast(seq) ==
    \A i, j \in DOMAIN seq :
        i < j => ~(isDigitFile(seq[i]) = 1 /\ isDigitFile(seq[j]) = 0)

RootNotes == Join(BasePath, Notes \o Extension)
RootDated == Join(BasePath, Dated \o Extension)

\* C4: in every sequence returned by list no entry whose file name starts
\* with a digit precedes one whose file name does not; a directory holding
\* 2024-01-01.md and notes.md is listed as notes.md, 2024-01-01.md.
Thm_C4_DigitNamedLast ==
    /\ (call.op = "list" /\ status = "returned") => DigitNamedLast(result)
    /\ DigitNamedLast(trace.listed)
    /\ (/\ call.op = "list" /\ call.arg = <<>> /\ status = "returned"
        /\ tree = {File(RootNotes, "text"), File(RootDated, "text")})
       => result = <<RootNotes, RootDated>>

\* list("") has returned for the directory holding 2024-01-01.md and notes.md
Wit_C4_NotesBeforeDated ==
    /\ call.op = "list" /\ call.arg = <<>> /\ status = "returned"
    /\ tree = {File(RootNotes, "text"), File(RootDated, "text")}
    /\ log = <<[kind |-> "dir", path |-> BasePath, status |-> "ok"]>>
    /\ result = <<RootNotes, RootDated>>

\* C5 as stated: #fetchEntries returns exactly one record per input path
\* whose content fetch did not answer not-found, in input order.
Cex_C5_OneRecordPerFoundPath ==
    (call.op = "fetchEntries" /\ status = "returned") =>
        PathsOf(result) =
            SelectSeq(call.filePaths, LAMBDA p : \E f \in tree : f.path = p)

ListedFiles == SelectSeq(trace.listed, LAMBDA e : EndsWith(e, Extension))
DigitNamed(seq) == SelectSeq(seq, LAMBDA e : isDigitFile(e) = 1)
OtherNamed(seq) == SelectSeq(seq, LAMBDA e : isDigitFile(e) = 0)
DirName(path) == SubSeq(path, 1, Len(path) - Len(LastSegment(path)))
LatestRequested == LatestOf(call.arg, call.latestArg)

\* get has listed at least one file and handed paths to #fetchEntries
GetFetchedListedFiles ==
    call.op = "get" /\ trace.fetchCalls > 0 /\ Len(ListedFiles) > 0

\* C6 as stated: with latest requested get fetches exactly one file, a file
\* whose name does not start with a digit when there is one, else the
\* lexically last digit-named file; otherwise it fetches all listed files.
Cex_C6_NonDigitPreferred ==
    GetFetchedListedFiles =>
        IF LatestRequested
        THEN /\ Len(trace.toFetch) = 1
             /\ IF OtherNamed(ListedFiles) # <<>>
                THEN isDigitFile(trace.toFetch[1]) = 0
                ELSE \A i \in DOMAIN ListedFiles :
                        ~StrLess(trace.toFetch[1], ListedFiles[i])
        ELSE trace.toFetch = ListedFiles

\* C6 amended: with latest requested get fetches exactly one file, the last
\* entry of the listing: a digit-named file is preferred (the last one in
\* the order list returns them, which is the lexically last one when they
\* sit in one directory) and only when there is none the last other file;
\* otherwise it fetches all listed files.
Thm_C6_LastListedFetched ==
    GetFetchedListedFiles =>
        /\ trace.fetchCalls = 1
        /\ IF LatestRequested
           THEN LET digit == DigitNamed(ListedFiles)
                    other == OtherNamed(ListedFiles)
                IN  /\ Len(trace.toFetch) = 1
                    /\ trace.toFetch[1] = IF digit # <<>> THEN digit[Len(digit)]
                                          ELSE other[Len(other)]
                    /\ (\A i \in DOMAIN digit : DirName(digit[i]) = DirName(digit[1]))
                       => \A i \in DOMAIN digit : ~StrLess(trace.toFetch[1], digit[i])
                    /\ status = "returned" =>
                          /\ log[Len(log)].kind = "raw"
                          /\ log[Len(log)].path = trace.toFetch[1]
                          /\ Len(result) <= 1
           ELSE trace.toFetch = ListedFiles

\* get("") with latest defaulted has fetched the dated entry, not the notes
Wit_C6_DatedFetched ==
    /\ call.op = "get" /\ call.arg = <<>> /\ call.latestArg = "omitted"
    /\ status = "returned"
    /\ tree = {File(RootNotes, "text"), File(RootDated, "text")}
    /\ trace.listed = <<RootNotes, RootDated>>
    /\ PathsOf(result) = <<RootDated>>

NoRequestFailed == \A i \in DOMAIN log : log[i].status # "error"

Month(m) == Join(Join(BasePath, Y2024), m) \o Slash
FilesUnder(dir) == {f \in tree : StartsWith(f.path, dir)}

\* The directory 2024 holds only the subdirectories 01 and 02, and each of
\* them holds files
OnlyMonthsIn2024 ==
    /\ FilesUnder(Month(M01)) # {}
    /\ FilesUnder(Month(M02)) # {}
    /\ FilesUnder(Join(BasePath, Y2024) \o Slash) =
           FilesUnder(Month(M01)) \cup FilesUnder(Month(M02))
    /\ \A f \in tree : f.path # Join(BasePath, Y2024 \o Extension)

\* C7 as stated, read most favourably (latest requested explicitly, every
\* file has text): get("2024") on such a tree returns exactly one record,
\* a file under 2024/02.
Cex_C7_LatestUnderLastMonth ==
    (/\ call.op = "get" /\ call.arg = Y2024 /\ call.latestArg = "true"
     /\ status = "returned" /\ OnlyMonthsIn2024
     /\ \A f \in tree : f.content # "")
    => /\ Len(result) = 1
       /\ StartsWith(result[1].path, Month(M02))

\* C8: with every lookup answered by data or by not-found, get never fails:
\* it either awaits a request or has returned; get("") on an empty
\* repository returns no entries.
Thm_C8_NotFoundIsNoError ==
    (call.op = "get" /\ NoRequestFailed) =>
        /\ status # "failed"
        /\ errorCode = ""
        /\ inflight = NoRequest => status = "returned"
        /\ (tree = {} /\ call.arg = <<>> /\ status = "returned") => result = <<>>

\* get("") on an empty repository has returned after one not-found listing
Wit_C8_EmptyRepository ==
    /\ call.op = "get" /\ call.arg = <<>> /\ tree = {}
    /\ log = <<[kind |-> "dir", path |-> BasePath, status |-> "notfound"]>>
    /\ status = "returned"
    /\ result = <<>>

\* C9: the first request that fails with a non-404 error ends the operation
\* (list, get, #fetchEntries): it is the last request of the operation, the
\* caller gets the error (ERR_API_REQUEST for a listing, ERR_RAW_REQUEST
\* for a content fetch) and no entries, no call is left pending and no
\* further step of the operation is possible.
Thm_C9_FailFast ==
    /\ \A i \in DOMAIN log :
          log[i].status = "error" =>
              /\ i = Len(log)
              /\ status = "failed"
              /\ errorCode = IF log[i].kind = "dir" THEN "ERR_API_REQUEST"
                             ELSE "ERR_RAW_REQUEST"
              /\ result = <<>>
              /\ stack = <<>>
              /\ inflight = NoRequest
    /\ status = "failed" =>
          /\ log # <<>> /\ log[Len(log)].status = "error"
          /\ ~ENABLED NextReflection

\* get("2024", latest) fails on its content fetch after two listings and
\* more succeeded
Wit_C9_FetchFailsAfterListing ==
    /\ call.op = "get" /\ call.arg = Y2024
    /\ status = "failed" /\ errorCode = "ERR_RAW_REQUEST"
    /\ Len(log) >= 4
    /\ log[Len(log) - 1].status = "ok"

\* ------------------------------------------------------------------------
\* Properties of the host document
\* ------------------------------------------------------------------------

HasPair(text, marker) == FindBlock(text, marker).found

\* C10 as stated: for every host document holding the delimiter pair of a
\* marker and every payload, injecting the payload for that marker twice in
\* a row leaves the document as it was after the first injection.
Cex_C10_InjectIdempotent ==
    \A k \in 1..(Len(passes) - 1) :
        (/\ passes[k].op = "inject" /\ passes[k + 1].op = "inject"
         /\ passes[k].marker = passes[k + 1].marker
         /\ HasPair(passes[k].before, passes[k].marker))
        => passes[k + 1].after = passes[k].after

\* The text of a pass's document before the matched start delimiter, and
\* after the matched end delimiter
TextBefore(p) == SubSeq(p.before, 1, FindBlock(p.before, p.marker).from - 1)
TextAfter(p) ==
    SubSeq(p.before, FindBlock(p.before, p.marker).to + 1, Len(p.before))

OtherMarker(marker) == IF marker = "instructions" THEN "memory" ELSE "instructions"

\* The pair of the other marker stands, with the text it encloses, where it
\* stood before the pass, moved by the change in length when it follows the
\* rewritten block
OtherBlockKept(p) ==
    LET b == FindBlock(p.before, p.marker)
        o == FindBlock(p.before, OtherMarker(p.marker))
        shift == IF o.from > b.to THEN Len(p.after) - Len(p.before) ELSE 0
    IN  (o.found /\ (o.to < b.from \/ o.from > b.to)) =>
            SubSeq(p.after, o.from + shift, o.to + shift) = SubSeq(p.before, o.from, o.to)

\* C11: a blank or inject pass for a marker whose pair is in the document
\* leaves the text before the start delimiter, the text after the end
\* delimiter, both delimiters and the block of the other marker as they
\* were (a blank pass leaves exactly one line break between the delimiters);
\* a pass for a marker whose pair is absent leaves the document unchanged.
Thm_C11_OnlyBlockChanges ==
    \A k \in DOMAIN passes :
        LET p == passes[k]
            n == Len(TextAfter(p))
        IN  IF HasPair(p.before, p.marker)
            THEN /\ Len(p.after) >= Len(TextBefore(p)) + n + 2
                 /\ SubSeq(p.after, 1, Len(TextBefore(p))) = TextBefore(p)
                 /\ p.after[Len(TextBefore(p)) + 1] = StartOf(p.marker)
                 /\ SubSeq(p.after, Len(p.after) - n + 1, Len(p.after)) = TextAfter(p)
                 /\ p.after[Len(p.after) - n] = EndOf(p.marker)
                 /\ OtherBlockKept(p)
                 /\ p.op = "clear" =>
                       p.after = TextBefore(p)
                                   \o <<StartOf(p.marker), "\n", EndOf(p.marker)>>
                                   \o TextAfter(p)
            ELSE p.after = p.before

\* A payload using the match and a group has been injected into a filled
\* memory block that follows the instructions block and precedes more text
Wit_C11_InjectedBetweenOthers ==
    /\ Len(passes) = 1
    /\ passes[1].op = "inject" /\ passes[1].marker = "memory"
    /\ payload = <<"{", "$", "&", "}">>
    /\ HasPair(passes[1].before, "instructions")
    /\ HasPair(passes[1].before, "memory")
    /\ TextAfter(passes[1]) = <<"x">>
    /\ Len(passes[1].after) > Len(passes[1].before) + 4

\* ------------------------------------------------------------------------
\* Properties of the reflection reader: order of the requests
\* ------------------------------------------------------------------------

\* The requests the operation has issued, in order: the answered ones, then
\* the one awaited
Issued ==
    [i \in DOMAIN log |-> Request(log[i].kind, log[i].path)]
        \o (IF inflight = NoRequest THEN <<>> ELSE <<inflight>>)

RequestPaths(reqs) == [i \in DOMAIN reqs |-> reqs[i].path]

\* C16: an operation that is running awaits exactly one request and one
\* that is not running awaits none, so a request is issued only when all
\* earlier ones are answered; #fetchEntries issues its content fetches for
\* its paths in input order (for get: the paths it handed over); list asks
\* for no directory twice.
Thm_C16_OneRequestAtATime ==
    /\ status = "running" <=> inflight # NoRequest
    /\ status = "running" => stack # <<>>
    /\ Len(Issued) - Len(log) \in {0, 1}
    /\ call.op = "fetchEntries" =>
          /\ Len(Issued) <= Len(call.filePaths)
          /\ RequestPaths(Issued) = SubSeq(call.filePaths, 1, Len(Issued))
          /\ \A i \in DOMAIN Issued : Issued[i].kind = "raw"
    /\ (call.op = "get" /\ trace.fetchCalls > 0 /\ status = "returned") =>
          /\ Len(log) >= Len(trace.toFetch)
          /\ RequestPaths(SubSeq(Issued, Len(log) - Len(trace.toFetch) + 1, Len(log)))
                = trace.toFetch
    /\ \A i, j \in DOMAIN Issued :
          (i < j /\ Issued[i].kind = "dir" /\ Issued[j].kind = "dir")
              => Issued[i].path # Issued[j].path

\* #fetchEntries has fetched two paths, the undated one first as given
Wit_C16_TwoFetchesInOrder ==
    /\ call.op = "fetchEntries"
    /\ call.filePaths = <<RootNotes, Join(Join(Join(BasePath, Y2024), M02), D05 \o Extension)>>
    /\ status = "returned"
    /\ RequestPaths(Issued) = call.filePaths
    /\ Len(result) = 2

\* ------------------------------------------------------------------------
\* Properties of the reflection reader: order within the segments
\* ------------------------------------------------------------------------

\* Entries i < j of seq that are both digit-named or both not
SameSegmentPairs(seq) ==
    {<<i, j>> \in (DOMAIN seq) \X (DOMAIN seq) :
        i < j /\ isDigitFile(seq[i]) = isDigitFile(seq[j])}

RECURSIVE PathLess(_, _)
\* a before b when the paths are compared name by name from the root, each
\* name by code units
PathLess(a, b) ==
    LET fa == FirstSegment(a)
        fb == FirstSegment(b)
    IN  IF fa # fb THEN StrLess(fa, fb)
        ELSE IF fa = a \/ fb = b THEN fa = a /\ fb # b
        ELSE PathLess(SliceFrom(a, Len(fa) + 1), SliceFrom(b, Len(fb) + 1))

\* C18 as stated: within each segment of a sequence returned by list the
\* entries are in lexical order of their paths.
Cex_C18_SegmentsLexical ==
    /\ (call.op = "list" /\ status = "returned") =>
          \A ij \in SameSegmentPairs(result) : StrLess(result[ij[1]], result[ij[2]])
    /\ \A ij \in SameSegmentPairs(trace.listed) :
          StrLess(trace.listed[ij[1]], trace.listed[ij[2]])

\* C18 amended: within each segment the entries are in the order of their
\* paths compared name by name from the root (the order in which the walk
\* meets them); entries of one directory are therefore in lexical order of
\* their paths.
Thm_C18_SegmentsInWalkOrder ==
    LET InOrder(seq) ==
            \A ij \in SameSegmentPairs(seq) :
                /\ PathLess(seq[ij[1]], seq[ij[2]])
                /\ DirName(seq[ij[1]]) = DirName(seq[ij[2]])
                      => StrLess(seq[ij[1]], seq[ij[2]])
    IN  /\ (call.op = "list" /\ status = "returned") => InOrder(result)
        /\ InOrder(trace.listed)

\* list("") has returned the entry of a day under directory 2024 before the
\* dated entry 2024-01-01.md of the root, which is lexically smaller
Wit_C18_NestedBeforeSibling ==
    /\ call.op = "list" /\ call.arg = <<>> /\ status = "returned"
    /\ result = <<Join(Join(Join(BasePath, Y2024), M02), D05 \o Extension), RootDated>>
    /\ StrLess(RootDated, result[1])

\* ------------------------------------------------------------------------
\* Properties of the reflection reader: the fragment taken as a file
\* ------------------------------------------------------------------------

\* The path get makes of its fragment when the listing is empty
LiteralPath ==
    Join(BasePath, IF EndsWith(call.arg, Extension) THEN call.arg
                   ELSE call.arg \o Extension)

\* get was called with a fragment, got an empty listing and has returned
GetReturnedOnEmptyListing ==
    /\ call.op = "get" /\ call.arg # <<>>
    /\ status = "returned"
    /\ trace.listed = <<>>

\* C19 as stated: get with a non-empty fragment and an empty listing fetches
\* exactly one path, the base path plus the fragment with the extension
\* appended unless it ends with it, as its last request; the result holds
\* the record of that path if the file exists and is empty if it does not.
Cex_C19_LiteralFileFetched ==
    GetReturnedOnEmptyListing =>
        /\ trace.fetchCalls = 1
        /\ trace.toFetch = <<LiteralPath>>
        /\ log[Len(log)].kind = "raw" /\ log[Len(log)].path = LiteralPath
        /\ IF \E f \in tree : f.path = LiteralPath
           THEN PathsOf(result) = <<LiteralPath>>
           ELSE result = <<>>

\* ------------------------------------------------------------------------
\* Properties of generate, build and output
\* ------------------------------------------------------------------------

\* The values that are null or not of type object
InvalidKinds == {"null", "undefined", "string"}

\* A direct call of generate with an invalid instructions or profiles
InvalidCall ==
    /\ run.entry = "generate"
    /\ (run.instructions \in InvalidKinds \/ run.profiles \in InvalidKinds)

Count(seq, x) == Cardinality({i \in DOMAIN seq : seq[i] = x})

\* The output objects with a path manifest that generate returned or printed
Manifests ==
    {frame.returned[i] : i \in {j \in DOMAIN frame.returned : frame.returned[j].hasPaths}}
    \cup {effects[i].target :
              i \in {j \in DOMAIN effects : effects[j].kind = "stdout" /\ effects[j].target.hasPaths}}

\* The registrations whose skill directory exists and whose zip path is p
Packaged(p) == {i \in DOMAIN run.plugins : run.plugins[i].dir /\ ZipPath(run.plugins[i].skill) = p}

JsonPaths == {JsonPath(InstructionsJson), JsonPath(MemoryJson)}

\* A manifest holds one path for every registration with a directory, the
\* two JSON paths once each, nothing else, in ascending order
ManifestExact(v) ==
    /\ \A i \in DOMAIN v.paths :
           v.paths[i] \in JsonPaths \cup {ZipPath(n) : n \in SkillNames}
    /\ \A n \in SkillNames : Count(v.paths, ZipPath(n)) = Cardinality(Packaged(ZipPath(n)))
    /\ \A p \in JsonPaths : Count(v.paths, p) = 1
    /\ \A i \in DOMAIN v.paths : i > 1 => ~StrLess(v.paths[i], v.paths[i - 1])

\* The step that packages one registered skill
ZipStep ==
    /\ todo # <<>> /\ Cur.op = "zip"
    /\ LET reg == run.plugins[Cur.arg]
           zp == ZipPath(reg.skill)
           n == Len(effects)
       IN  IF ~reg.dir
           THEN /\ todo' = Rest /\ outcome' = outcome
                /\ effects' = effects /\ disk' = disk /\ frame' = frame
           ELSE /\ zp \in disk.zips =>
                       /\ Len(effects') > n
                       /\ effects'[n + 1].kind = "unlink" /\ effects'[n + 1].target = zp
                /\ \A i \in DOMAIN effects' :
                       i > n /\ effects'[i].kind = "tar" =>
                           /\ effects'[i].target = zp
                           /\ zp \in disk.zips => i = n + 2
                /\ zp \in disk'.zips <=> outcome'.error = ""

\* C13: every path manifest of the container-bootstrap target holds exactly
\* one package path for each registered skill whose source directory exists
\* and the paths of instructions.json and memory.json; a skill whose
\* directory is absent is passed over without error, effect or path; an
\* existing package file is unlinked before tar recreates it.
Thm_C13_ManifestAndPackaging ==
    /\ [](\A v \in Manifests : ManifestExact(v))
    /\ [][todo # <<>> /\ Cur.op = "zip" => ZipStep]_vars

\* A bootstrap build returned the manifest after passing over a skill
\* without directory and replacing the package of another
Wit_C13_ManifestWithSkippedSkill ==
    /\ run.entry = "cli"
    /\ frame.returned # <<>> /\ frame.returned[1].hasPaths
    /\ Len(frame.returned[1].paths) = 3
    /\ \E i \in DOMAIN run.plugins : ~run.plugins[i].dir
    /\ \E i \in DOMAIN effects : effects[i].kind = "unlink"

\* The paths that fs.writeFileSync of #writeJsonFile has written
Written == {effects[i].target : i \in {j \in DOMAIN effects : effects[j].kind = "write"}}

\* instructions.json was written and the write of memory.json threw
SecondWriteFailed ==
    /\ outcome.error = "EACCES"
    /\ Written = {JsonPath(InstructionsJson)}

\* C14: when instructions.json has been written and the write of
\* memory.json fails, instructions.json stays on disk with the content
\* written, a direct generate call throws, build prints its diagnostic and
\* returns false, and the process exits with a status other than 0.
Thm_C14_FirstFileKeptRunFailed ==
    SecondWriteFailed =>
        /\ \E f \in disk.json :
               /\ f.path = JsonPath(InstructionsJson)
               /\ f.content = DataJson(IF run.entry = "generate" THEN "direct" ELSE "container",
                                       "instructions")
        /\ \A f \in disk.json : f.path = JsonPath(MemoryJson) => f.content = <<>>
        /\ ~outcome.success
        /\ IF run.entry = "generate" THEN outcome.state = "failed"
           ELSE /\ outcome.state \in {"built", "exited"}
                /\ effects[Len(effects)] = Effect("stderr", "EACCES", "none")
                /\ outcome.state = "exited" => outcome.exit = 1

\* The command-line build exited after the second write failed
Wit_C14_ExitedAfterSecondWriteFailed ==
    /\ SecondWriteFailed
    /\ run.entry = "cli"
    /\ outcome.state = "exited" /\ outcome.exit = 1
    /\ \E f \in disk.json : f.path = JsonPath(MemoryJson)

\* The diagnostic lines printed by the catch of build
Diagnostics == {i \in DOMAIN effects : effects[i].kind = "stderr"}

\* A top-level invocation has ended after build returned false
FailedInvocation ==
    /\ run.entry \in {"cli", "loader"}
    /\ outcome.state = "exited"
    /\ ~outcome.success

\* C15: every top-level invocation whose build fails ends with a status
\* other than 0 and one diagnostic line, from the command line and from
\* the loader, inside and outside the container.
Cex_C15_FailedBuildExitsNonZero ==
    FailedInvocation => outcome.exit # 0 /\ Cardinality(Diagnostics) = 1

\* The passes of one kind made over the block of a marker in this run
PassesOver(kind, marker) ==
    {i \in DOMAIN effects : effects[i].kind = kind /\ effects[i].target = marker}

\* C17: a run blanks the block of each marker at most once and injects it
\* at most once, in particular a container build started outside the
\* container by MemoryBuilder.build.
Cex_C17_OneBlankOneInjectPerRun ==
    \A marker \in Markers :
        /\ Cardinality(PassesOver("clear", marker)) <= 1
        /\ Cardinality(PassesOver("inject", marker)) <= 1

\* The effects of a kind, and the kinds of the effects in order
EffectsOf(kind) == {i \in DOMAIN effects : effects[i].kind = kind}
Kinds == [i \in DOMAIN effects |-> effects[i].kind]

\* C20: output to a file opens one descriptor, writes, syncs and closes it
\* on every path: never more than one descriptor is open, none is open
\* once output has returned or thrown, a failure of the write or the sync
\* is pending until the descriptor is closed and surfaces as
\* OUTPUT_WRITE_ERROR; output to stdout (or without a path) opens and
\* creates nothing.
Thm_C20_HandleReleasedOnEveryPath ==
    run.entry = "output" =>
        /\ Cardinality(disk.open) <= 1
        /\ Cardinality(EffectsOf("open")) <= 1
        /\ frame.pending => disk.open # {} /\ outcome.state = "running"
        /\ outcome.state \in {"returned", "failed"} =>
               /\ disk.open = {}
               /\ Cardinality(EffectsOf("close")) = Cardinality(EffectsOf("open"))
               /\ EffectsOf("open") # {} => Kinds[Len(Kinds)] = "close"
        /\ outcome.state = "failed" => outcome.error = "OUTPUT_WRITE_ERROR"
        /\ outcome.state = "returned" /\ run.dest = "file" =>
               /\ disk.file = "written" /\ disk.dir
               /\ SubSeq(Kinds, Len(Kinds) - 3, Len(Kinds)) = <<"open", "write", "fsync", "close">>
        /\ run.dest \in {"stdout", ""} =>
               /\ disk.open = {} /\ disk.file \in {"absent", "old"}
               /\ \A i \in DOMAIN effects : effects[i].kind = "stdout"
               /\ outcome.state \in {"running", "returned"}

\* The sync failed, the descriptor was closed, then the error surfaced
Wit_C20_ClosedAfterFailedSync ==
    /\ run.entry = "output" /\ run.dest = "file"
    /\ outcome.state = "failed" /\ outcome.error = "OUTPUT_WRITE_ERROR"
    /\ EffectsOf("write") # {} /\ EffectsOf("fsync") = {}
    /\ Kinds[Len(Kinds)] = "close"
    /\ disk.open = {}

\* An entry is the path of a file of the repository that ends with the
\* extension; a directory marker ends with the separator
IsFileEntry(e) ==
    /\ EndsWith(e, Extension)
    /\ ~EndsWith(e, Slash)
    /\ \E f \in tree : f.path = e
DirectoryMarkers(seq) == SelectSeq(seq, LAMBDA e : EndsWith(e, Slash))
GetFrames == {i \in DOMAIN stack : stack[i].fn = "get"}

\* C21: every entry that a call of list returns, to the caller or to the
\* list or get that awaits it, is the path of a file ending with the
\* extension, never a directory marker; so in get the directory markers
\* of the listing are none, get never calls itself and at most one get is
\* pending.
Thm_C21_ListEmitsOnlyFiles ==
    /\ call.op = "list" /\ status = "returned" => \A i \in DOMAIN result : IsFileEntry(result[i])
    /\ \A k \in DOMAIN stack :
           stack[k].fn = "list" => \A i \in DOMAIN stack[k].entries : IsFileEntry(stack[k].entries[i])
    /\ \A i \in DOMAIN trace.listed : IsFileEntry(trace.listed[i])
    /\ DirectoryMarkers(trace.listed) = <<>>
    /\ trace.selfCalls = 0
    /\ Cardinality(GetFrames) <= 1

\* get(date, true) returned after a listing that went through two levels
\* of directories and found nothing directly under the listed path
Wit_C21_LatestOverNestedDirectories ==
    /\ call.op = "get" /\ LatestRequested
    /\ status = "returned"
    /\ Len(trace.listed) >= 2
    /\ \A i \in DOMAIN trace.listed :
           StartsWith(trace.listed[i], Join(Join(BasePath, Y2024), M01) \o Slash)
           \/ StartsWith(trace.listed[i], Join(Join(BasePath, Y2024), M02) \o Slash)
    /\ \E i \in DOMAIN log : log[i].kind = "dir" /\ log[i].path = Join(BasePath, Y2024)
    /\ \E i \in DOMAIN log : log[i].kind = "dir" /\ log[i].path = Join(Join(BasePath, Y2024), M02)

\* The place of an effect in the container branch of generate
Phase(kind) ==
    CASE kind = "clear" -> 1
      [] kind \in {"unlink", "tar"} -> 2
      [] kind = "write" -> 3
      [] kind = "inject" -> 4
      [] OTHER -> 0

\* The effects on SKILL.md, the packages and the JSON files made by the
\* generate call of the container branch
BranchEffects ==
    SelectSeq(effects, LAMBDA e : Phase(e.kind) > 0 /\ e.by \in {"container", "direct"})

\* The branch effects of a phase, and their targets
InPhase(phase) == {i \in DOMAIN BranchEffects : Phase(BranchEffects[i].kind) = phase}
DoneIn(phase) == {BranchEffects[i].target : i \in InPhase(phase)}

\* The run takes the container branch of generate
ContainerBranch == run.entry \in {"cli", "generate"} /\ run.container /\ ~run.inContainer

\* C22: in the container branch of generate both blocks are blanked, then
\* the packages are created, then instructions.json and memory.json are
\* written, then the payloads are injected, each phase complete before
\* the next starts; when creating a package fails generate throws
\* ZIP_CREATE_ERROR with both blocks of SKILL.md blank (an earlier payload
\* is gone), no JSON file written and nothing injected.
Thm_C22_ContainerBranchOrder ==
    ContainerBranch =>
        /\ \A i, j \in DOMAIN BranchEffects :
               i < j => Phase(BranchEffects[i].kind) <= Phase(BranchEffects[j].kind)
        /\ InPhase(2) \cup InPhase(3) \cup InPhase(4) # {} => DoneIn(1) = Markers
        /\ InPhase(3) \cup InPhase(4) # {} =>
               \A i \in DOMAIN run.plugins :
                   run.plugins[i].dir => ZipPath(run.plugins[i].skill) \in DoneIn(2)
        /\ InPhase(4) # {} => DoneIn(3) = JsonPaths
        /\ outcome.error = "ZIP_CREATE_ERROR" =>
               /\ DoneIn(1) = Markers
               /\ doc = BuildDocument
               /\ \A marker \in Markers :
                      LET b == FindBlock(doc, marker)
                      IN  b.found /\ SubSeq(doc, b.from + 1, b.to - 1) = <<"\n">>
               /\ disk.json = {}
               /\ InPhase(3) = {} /\ InPhase(4) = {}
               /\ ~outcome.success
               /\ outcome.state = IF run.entry = "generate" THEN "failed" ELSE outcome.state
               /\ outcome.state \in {"failed", "built", "exited"}

\* The second package failed after the first was created, in a run that
\* found an earlier payload in SKILL.md
Wit_C22_SecondPackageFailed ==
    /\ ContainerBranch
    /\ run.previous
    /\ outcome.error = "ZIP_CREATE_ERROR"
    /\ \E i \in InPhase(2) : BranchEffects[i].kind = "tar"
    /\ doc # PreviousDocument

=============================================================================
